---- MODULE Spec2Model ----
(***************************************************************************)
(* Model of src/src/assistant/utils.py: deduplicate_and_format_sources,    *)
(* format_sources and searxng_search.                                      *)
(*                                                                         *)
(* Encoding of Python values                                               *)
(*   str (text)   a sequence of tokens.  A token is either one character   *)
(*                ("a", " ", "\n") or a literal chunk of an f-string that  *)
(*                neither begins nor ends with whitespace ("Sources:").    *)
(*                len() is only ever taken of raw_content, which is made   *)
(*                of one-character tokens.  title, url and content are     *)
(*                one token each.                                          *)
(*   None         the one-token sequence PyNone (never a character).       *)
(*   dict         a TLA+ record/function; `k in d` is k \in DOMAIN d.      *)
(*   top-level and list-element values carry their Python type:            *)
(*                [type |-> "dict" | "list" | "str" | "NoneType", val].    *)
(*   an element of sources_list is a source dict (a record) or, when       *)
(*   list.extend iterated a dict, one of its keys: [str |-> key].          *)
(***************************************************************************)
EXTENDS Integers, Sequences, FiniteSets, TLC

VARIABLES
    pc,               \* "idle" | "returned" | "raised" | "request" | "loop"
    fn,               \* the function called last: "none" | "dedup" | "format" | "searxng"
    args,             \* the arguments as passed (by value)
    caller_sources,   \* the caller's source records after the call, flattened order
    sources_list,     \* local of deduplicate_and_format_sources
    unique_sources,   \* local: values of the ordered dict, insertion order
    formatted_text,   \* local: text before the final strip()
    result,           \* the returned value
    error,            \* "none" or the exception class raised to the caller
    stdout,           \* lines printed
    search_results,   \* searxng_search: the provider's JSON results
    formatted_results,\* searxng_search: local list
    fetches,          \* searxng_search: outcome of each page fetch done so far
    first,            \* the first call made and what it returned (history)
    calls             \* number of calls made so far (history)

vars == <<pc, fn, args, caller_sources, sources_list, unique_sources, formatted_text,
          result, error, stdout, search_results, formatted_results, fetches, first,
          calls>>

----------------------------------------------------------------------------
(* Bounds *)
MaxResults == 3       \* longest flattened sequence of results passed in
MaxTokens == 2        \* max_tokens_per_source ranges over 1..MaxTokens
MaxProvider == 3      \* most results the search provider returns
MaxRepeat == 2        \* longest results sequence in the repeated-call specification
MaxCalls == 3         \* calls counted in the repeated-call specification

(* 4 characters per token, utils.py line 39 *)
CharsPerToken == 4

----------------------------------------------------------------------------
(* Text helpers *)
Rep(c, n) == [i \in 1..n |-> c]

PyNone == <<"<None>">>

Whitespace == {" ", "\n"}

RECURSIVE LStrip(_)
LStrip(t) ==
    IF t # <<>> /\ Head(t) \in Whitespace THEN LStrip(Tail(t)) ELSE t

RECURSIVE RStrip(_)
RStrip(t) ==
    IF t # <<>> /\ t[Len(t)] \in Whitespace THEN RStrip(SubSeq(t, 1, Len(t) - 1)) ELSE t

(* strip() left out: the text is returned as built *)
NotStripped(t) == t

(* str.strip() *)
Strip(t) == RStrip(LStrip(t))

SeqUpTo(S, n) == UNION {[1..k -> S] : k \in 0..n}

----------------------------------------------------------------------------
(* The inputs the calls are drawn from *)

Source(title, url, content) ==
    [title |-> title, url |-> url, content |-> content]

SourceRaw(title, url, content, raw) ==
    [title |-> title, url |-> url, content |-> content, raw_content |-> raw]

(* Source records: raw_content absent, None, shorter than every limit with
   trailing whitespace, exactly 4 characters, whitespace only, and longer
   than 8 characters. *)
SourcePool ==
    { Source("A", "u1", "c1"),
      SourceRaw("A2", "u1", "c2", PyNone),
      SourceRaw("B", "u1", "c3", <<"a", "a", " ">>),
      SourceRaw("C", "u2", "c4", Rep("a", CharsPerToken)),
      SourceRaw("E", "u2", "c5", <<" ", "\n">>),
      SourceRaw("F", "u2", "c6", Rep("a", 2 * CharsPerToken) \o <<" ", "a">>) }

ResultSeqs == SeqUpTo(SourcePool, MaxResults)

PyDict(d) == [type |-> "dict", val |-> d]
PyList(l) == [type |-> "list", val |-> l]
PyStr(s) == [type |-> "str", val |-> s]

(* A provider response: a dict with a results field *)
Response(s) == PyDict([results |-> s])

(* A list input holding the sequence s: the first k results in one element,
   the rest in a second element or as flat SearchResult elements. *)
ListShapes == {<<"response", "response">>, <<"list", "response">>, <<"response", "flat">>}

Element(kind, s) == IF kind = "response" THEN Response(s) ELSE PyList(s)

ListOf(shape, s, k) ==
    PyList(<<Element(shape[1], SubSeq(s, 1, k))>> \o
           (IF shape[2] = "flat"
              THEN [i \in 1..(Len(s) - k) |-> PyDict(s[k + i])]
              ELSE <<Element(shape[2], SubSeq(s, k + 1, Len(s)))>>))

(* Top-level inputs that are no list: a string, None, a dict without results *)
StrInput == PyStr("not a dict or list")
NoneInput == [type |-> "NoneType", val |-> "None"]
DictsWithoutResults == {PyDict([query |-> "q"]), PyDict(Source("A", "u1", "c1"))}

----------------------------------------------------------------------------
(* deduplicate_and_format_sources, lines 12-23: convert input to a list *)

Outcome(err, val) == [error |-> err, value |-> val]

(* keys of a source dict in insertion order: what list.extend(dict) appends *)
KeysOf(d) ==
    [i \in 1..Cardinality(DOMAIN d) |->
        [str |-> <<"title", "url", "content", "raw_content">>[i]]]

RECURSIVE ExtendAll(_, _, _)
ExtendAll(responses, i, acc) ==
    IF i > Len(responses) THEN acc
    ELSE LET response == responses[i] IN
         IF response.type = "dict" /\ "results" \in DOMAIN response.val
           THEN ExtendAll(responses, i + 1, acc \o response.val.results)
         ELSE IF response.type = "dict"
           THEN ExtendAll(responses, i + 1, acc \o KeysOf(response.val))
         ELSE ExtendAll(responses, i + 1, acc \o response.val)

Normalize(search_response) ==
    IF search_response.type = "dict"
      THEN IF "results" \in DOMAIN search_response.val
             THEN Outcome("none", search_response.val.results)
             ELSE Outcome("KeyError", <<>>)
    ELSE IF search_response.type = "list"
      THEN Outcome("none", ExtendAll(search_response.val, 1, <<>>))
    ELSE Outcome("ValueError", <<>>)

----------------------------------------------------------------------------
(* lines 25-29: deduplicate by URL *)

NewUniqueSources == <<>>

HasKey(unique, url) == \E j \in 1..Len(unique) : unique[j].url = url

(* line 28 left out: every record is stored under its url, the last one stays *)
InsertLastWins(unique, source) ==
    IF HasKey(unique, source.url)
      THEN [j \in 1..Len(unique) |->
               IF unique[j].url = source.url THEN source ELSE unique[j]]
      ELSE Append(unique, source)

Insert(unique, source) ==
    IF HasKey(unique, source.url) THEN unique ELSE Append(unique, source)

RECURSIVE DedupLoop(_, _, _)
DedupLoop(list, i, unique) ==
    IF i > Len(list) THEN Outcome("none", unique)
    ELSE IF "str" \in DOMAIN list[i] THEN Outcome("TypeError", unique)
    ELSE DedupLoop(list, i + 1, Insert(unique, list[i]))

----------------------------------------------------------------------------
(* lines 31-49: format output *)

Header == <<"Sources:", "\n", "\n">>
Sep == <<"\n", "===", "\n">>
TruncatedMarker == <<"...", " ", "[truncated]">>

CharLimit(max_tokens_per_source) == max_tokens_per_source * CharsPerToken

(* line 41: source.get('raw_content', '') *)
GetRawContent(source) ==
    IF "raw_content" \in DOMAIN source THEN source.raw_content ELSE <<>>

(* lines 42-44: the warning is printed when the value is None *)
Warns(source) == GetRawContent(source) = PyNone

Warning(source) == <<"Warning: No raw_content found for source", source.url>>

(* lines 42-43 *)
ResolveRawContent(source) ==
    IF GetRawContent(source) = PyNone THEN <<>> ELSE GetRawContent(source)

(* >= in place of > on line 45 *)
TruncateAtLimit(raw_content, char_limit) ==
    IF Len(raw_content) >= char_limit
      THEN SubSeq(raw_content, 1, char_limit) \o TruncatedMarker
      ELSE raw_content

(* lines 45-46 *)
Truncate(raw_content, char_limit) ==
    IF Len(raw_content) > char_limit
      THEN SubSeq(raw_content, 1, char_limit) \o TruncatedMarker
      ELSE raw_content

(* lines 34-36 *)
HeadBlock(source) ==
    <<"Source", " ", source.title, ":">> \o Sep \o
    <<"URL:", " ", source.url>> \o Sep \o
    <<"Most relevant content from source:", " ", source.content>> \o Sep

(* line 47 *)
RawBlock(source, max_tokens_per_source) ==
    <<"Full source content limited to", " ", ToString(max_tokens_per_source), " ",
      "tokens:", " ">> \o
    Truncate(ResolveRawContent(source), CharLimit(max_tokens_per_source)) \o
    <<"\n", "\n">>

(* the test of line 37 left out *)
BlockAlwaysRaw(source, max_tokens_per_source, include_raw_content) ==
    HeadBlock(source) \o RawBlock(source, max_tokens_per_source)

Block(source, max_tokens_per_source, include_raw_content) ==
    HeadBlock(source) \o
    (IF include_raw_content THEN RawBlock(source, max_tokens_per_source) ELSE <<>>)

RECURSIVE FormatLoop(_, _, _, _, _)
FormatLoop(unique, i, text, max_tokens_per_source, include_raw_content) ==
    IF i > Len(unique) THEN text
    ELSE FormatLoop(unique, i + 1,
                    text \o Block(unique[i], max_tokens_per_source, include_raw_content),
                    max_tokens_per_source, include_raw_content)

RECURSIVE PrintLoop(_, _, _, _)
PrintLoop(unique, i, out, include_raw_content) ==
    IF i > Len(unique) THEN out
    ELSE PrintLoop(unique, i + 1,
                   IF include_raw_content /\ Warns(unique[i])
                     THEN Append(out, Warning(unique[i])) ELSE out,
                   include_raw_content)

(* lines 42-43 storing the substitute into the dict instead of the local *)
SourceWrittenBack(source, include_raw_content) ==
    IF include_raw_content /\ Warns(source)
      THEN [source EXCEPT !.raw_content = <<>>]
      ELSE source

(* The source objects after the format loop: lines 41-46 assign the local
   raw_content only, the dict is never written. *)
SourceAfterFormat(source, include_raw_content) == source

(* The source records the caller holds, in the order the input lists them *)
RECURSIVE HeapOfList(_, _)
HeapOfList(elements, i) ==
    IF i > Len(elements) THEN <<>>
    ELSE LET e == elements[i] IN
         (IF e.type = "dict" /\ "results" \in DOMAIN e.val THEN e.val.results
          ELSE IF e.type = "dict" THEN <<e.val>>
          ELSE e.val) \o HeapOfList(elements, i + 1)

HeapSources(search_response) ==
    IF search_response.type = "dict"
      THEN IF "results" \in DOMAIN search_response.val
             THEN search_response.val.results ELSE <<>>
    ELSE IF search_response.type = "list" THEN HeapOfList(search_response.val, 1)
    ELSE <<>>

(* The format loop visits the dict objects held in unique_sources: those are
   the caller's records that are first with their url. *)
HeapAfterFormat(heap, include_raw_content) ==
    [i \in 1..Len(heap) |->
        IF \A j \in 1..(i - 1) : heap[j].url # heap[i].url
          THEN SourceAfterFormat(heap[i], include_raw_content)
          ELSE heap[i]]

----------------------------------------------------------------------------
(* format_sources, lines 60-63 *)

Line(source) == <<"*", " ", source.title, " ", ":", " ", source.url>>

RECURSIVE Join(_, _)
Join(lines, i) ==
    IF i > Len(lines) THEN <<>>
    ELSE lines[i] \o (IF i < Len(lines) THEN <<"\n">> ELSE <<>>) \o Join(lines, i + 1)

(* one line per url instead of one per result *)
FormatSourcesLinesUnique(results) ==
    LET unique == DedupLoop(results, 1, <<>>).value
    IN  [i \in 1..Len(unique) |-> Line(unique[i])]

FormatSourcesLines(results) == [i \in 1..Len(results) |-> Line(results[i])]

FormatSources(response) ==
    Join(FormatSourcesLines(response.val.results), 1)

----------------------------------------------------------------------------
(* State *)

NoCall == [fn |-> "none"]

Init ==
    /\ pc = "idle"
    /\ fn = "none"
    /\ args = NoCall
    /\ caller_sources = <<>>
    /\ sources_list = <<>>
    /\ unique_sources = <<>>
    /\ formatted_text = <<>>
    /\ result = PyNone
    /\ error = "none"
    /\ stdout = <<>>
    /\ search_results = <<>>
    /\ formatted_results = <<>>
    /\ fetches = <<>>
    /\ first = NoCall
    /\ calls = 0

(* One call of deduplicate_and_format_sources, lines 6-49 *)
DedupAndFormat(search_response, max_tokens_per_source, include_raw_content) ==
    LET n == Normalize(search_response)
        d == IF n.error = "none"
               THEN DedupLoop(n.value, 1, NewUniqueSources)
               ELSE Outcome(n.error, <<>>)
        ok == d.error = "none"
        text == FormatLoop(d.value, 1, Header, max_tokens_per_source, include_raw_content)
    IN  /\ fn' = "dedup"
        /\ args' = [search_response |-> search_response,
                    max_tokens_per_source |-> max_tokens_per_source,
                    include_raw_content |-> include_raw_content]
        /\ sources_list' = n.value
        /\ unique_sources' = d.value
        /\ formatted_text' = IF ok THEN text ELSE <<>>
        /\ stdout' = IF ok THEN PrintLoop(d.value, 1, <<>>, include_raw_content) ELSE <<>>
        /\ caller_sources' = IF ok
                               THEN HeapAfterFormat(HeapSources(search_response),
                                                    include_raw_content)
                               ELSE HeapSources(search_response)
        /\ result' = IF ok THEN Strip(text) ELSE PyNone
        /\ error' = d.error
        /\ pc' = IF ok THEN "returned" ELSE "raised"
        /\ UNCHANGED <<search_results, formatted_results, fetches>>

(* One call of format_sources, lines 51-63 *)
FormatSourcesCall(search_results_arg) ==
    /\ fn' = "format"
    /\ args' = [search_results |-> search_results_arg]
    /\ caller_sources' = HeapSources(search_results_arg)
    /\ result' = FormatSources(search_results_arg)
    /\ error' = "none"
    /\ pc' = "returned"
    /\ stdout' = <<>>
    /\ sources_list' = <<>>
    /\ unique_sources' = <<>>
    /\ formatted_text' = <<>>
    /\ UNCHANGED <<search_results, formatted_results, fetches>>

Tokens == 1..MaxTokens

CallDedupResponse ==
    /\ pc = "idle"
    /\ \E s \in ResultSeqs, mt \in Tokens, inc \in BOOLEAN :
          DedupAndFormat(Response(s), mt, inc)
    /\ UNCHANGED <<first, calls>>

CallDedupList ==
    /\ pc = "idle"
    /\ \E s \in ResultSeqs, mt \in Tokens, inc \in BOOLEAN :
          \E shape \in ListShapes, k \in 0..Len(s) :
             DedupAndFormat(ListOf(shape, s, k), mt, inc)
    /\ UNCHANGED <<first, calls>>

CallDedupDictWithoutResults ==
    /\ pc = "idle"
    /\ \E x \in DictsWithoutResults, mt \in Tokens, inc \in BOOLEAN :
          DedupAndFormat(x, mt, inc)
    /\ UNCHANGED <<first, calls>>

CallDedupStr ==
    /\ pc = "idle"
    /\ \E mt \in Tokens, inc \in BOOLEAN : DedupAndFormat(StrInput, mt, inc)
    /\ UNCHANGED <<first, calls>>

CallDedupNone ==
    /\ pc = "idle"
    /\ \E mt \in Tokens, inc \in BOOLEAN : DedupAndFormat(NoneInput, mt, inc)
    /\ UNCHANGED <<first, calls>>

CallFormatSources ==
    /\ pc = "idle"
    /\ \E s \in ResultSeqs : FormatSourcesCall(Response(s))
    /\ UNCHANGED <<first, calls>>

(* The caller drops the returned value or handles the exception *)
Return ==
    /\ pc \in {"returned", "raised"}
    /\ pc' = "idle"
    /\ fn' = "none"
    /\ args' = NoCall
    /\ caller_sources' = <<>>
    /\ sources_list' = <<>>
    /\ unique_sources' = <<>>
    /\ formatted_text' = <<>>
    /\ result' = PyNone
    /\ error' = "none"
    /\ stdout' = <<>>
    /\ search_results' = <<>>
    /\ formatted_results' = <<>>
    /\ fetches' = <<>>
    /\ UNCHANGED <<first, calls>>

----------------------------------------------------------------------------
(* searxng_search, lines 66-124 *)

(* Results in the provider's JSON; a field may be missing *)
ProviderPool ==
    { [title |-> "T1", url |-> "p1", content |-> "s1"],
      [title |-> "T2", url |-> "p2", content |-> "s2"],
      [url |-> "p3"] }

ProviderSeqs == SeqUpTo(ProviderPool, MaxProvider)

(* Text of a fetched page *)
PageTexts == {<<"p", "a", "g", "e">>, <<>>}

(* dict.get(key, '') on lines 103-105; '' is the empty token *)
GetOr(d, key, default) == IF key \in DOMAIN d THEN d[key] ELSE default

(* lines 102-107 *)
FormattedResult(r) ==
    [title |-> GetOr(r, "title", ""), url |-> GetOr(r, "url", ""),
     content |-> GetOr(r, "content", ""), raw_content |-> PyNone]

(* the slice of line 101 left out *)
NotSliced(results, max_results) == results

(* search_results.get('results', [])[:max_results], line 101 *)
Sliced(results, max_results) ==
    SubSeq(results, 1, IF max_results < Len(results) THEN max_results ELSE Len(results))

CallSearxng ==
    /\ pc = "idle"
    /\ \E inc \in BOOLEAN, max_results \in 0..MaxProvider :
          args' = [include_raw_content |-> inc, max_results |-> max_results]
    /\ fn' = "searxng"
    /\ pc' = "request"
    /\ UNCHANGED <<caller_sources, sources_list, unique_sources, formatted_text, result,
                   error, stdout, search_results, formatted_results, fetches, first, calls>>

(* lines 95-97 raise a RequestException; lines 122-124 *)
RequestFails ==
    /\ pc = "request"
    /\ stdout' = Append(stdout, <<"Error searching SearxNG:">>)
    /\ result' = [results |-> <<>>]
    /\ pc' = "returned"
    /\ UNCHANGED <<fn, args, caller_sources, sources_list, unique_sources, formatted_text,
                   error, search_results, formatted_results, fetches, first, calls>>

(* lines 95-100 *)
RequestSucceeds ==
    /\ pc = "request"
    /\ \E r \in ProviderSeqs : search_results' = r
    /\ formatted_results' = <<>>
    /\ pc' = "loop"
    /\ UNCHANGED <<fn, args, caller_sources, sources_list, unique_sources, formatted_text,
                   result, error, stdout, fetches, first, calls>>

InLoop ==
    /\ pc = "loop"
    /\ Len(formatted_results) < Len(Sliced(search_results, args.max_results))

NextResult == FormattedResult(search_results[Len(formatted_results) + 1])

(* One iteration of the loop, lines 101-118 *)
LoopStep(outcome, raw, printed) ==
    /\ InLoop
    /\ formatted_results' = Append(formatted_results,
                                   [NextResult EXCEPT !.raw_content = raw])
    /\ fetches' = Append(fetches, outcome)
    /\ stdout' = stdout \o printed
    /\ UNCHANGED <<pc, fn, args, caller_sources, sources_list, unique_sources,
                   formatted_text, result, error, search_results, first, calls>>

(* line 110 false: no fetch *)
NoFetch ==
    /\ pc = "loop"
    /\ ~args.include_raw_content
    /\ LoopStep([status |-> "none", text |-> <<>>], PyNone, <<>>)

(* lines 112-114: status 200 *)
FetchOk ==
    /\ pc = "loop"
    /\ args.include_raw_content
    /\ \E text \in PageTexts : LoopStep([status |-> "200", text |-> text], text, <<>>)

(* line 113 false *)
FetchOtherStatus ==
    /\ pc = "loop"
    /\ args.include_raw_content
    /\ \E text \in PageTexts : LoopStep([status |-> "not200", text |-> text], PyNone, <<>>)

(* lines 115-116 *)
FetchRaises ==
    /\ pc = "loop"
    /\ args.include_raw_content
    /\ LoopStep([status |-> "exception", text |-> <<>>], PyNone, <<<<"Failed to fetch raw content for", NextResult.url>>>>)

(* line 120 *)
SearxngReturn ==
    /\ pc = "loop"
    /\ ~InLoop
    /\ result' = [results |-> formatted_results]
    /\ pc' = "returned"
    /\ UNCHANGED <<fn, args, caller_sources, sources_list, unique_sources, formatted_text,
                   error, stdout, search_results, formatted_results, fetches, first, calls>>

Next ==
    \/ CallDedupResponse
    \/ CallDedupList
    \/ CallDedupDictWithoutResults
    \/ CallDedupStr
    \/ CallDedupNone
    \/ CallFormatSources
    \/ CallSearxng
    \/ RequestFails
    \/ RequestSucceeds
    \/ NoFetch
    \/ FetchOk
    \/ FetchOtherStatus
    \/ FetchRaises
    \/ SearxngReturn
    \/ Return

Spec == Init /\ [][Next]_vars

----------------------------------------------------------------------------
(* Repeated calls: a call may follow any earlier call without the state being
   cleared in between; the first call and the number of calls are recorded. *)

RepeatPool ==
    { SourceRaw("A2", "u1", "c2", PyNone),
      SourceRaw("F", "u2", "c6", Rep("a", 2 * CharsPerToken) \o <<" ", "a">>) }

RepeatSeqs == SeqUpTo(RepeatPool, MaxRepeat)

Recorded ==
    /\ calls < MaxCalls
    /\ calls' = calls + 1
    /\ first' = IF first.fn = "none"
                  THEN [fn |-> fn', args |-> args', result |-> result', error |-> error']
                  ELSE first

RepeatDedup ==
    /\ pc \in {"idle", "returned", "raised"}
    /\ \E s \in RepeatSeqs, inc \in BOOLEAN : DedupAndFormat(Response(s), 1, inc)
    /\ Recorded

RepeatFormatSources ==
    /\ pc \in {"idle", "returned", "raised"}
    /\ \E s \in RepeatSeqs : FormatSourcesCall(Response(s))
    /\ Recorded

NextRepeat ==
    \/ RepeatDedup
    \/ RepeatFormatSources

SpecRepeat == Init /\ [][NextRepeat]_vars

----------------------------------------------------------------------------
(* Vocabulary of the properties *)

DedupReturned == fn = "dedup" /\ pc = "returned"

(* The input sequence of search results: the provider responses concatenated *)
InputResults == HeapSources(args.search_response)

UrlsOf(seq) == {seq[i].url : i \in 1..Len(seq)}

FirstIndex(seq, url) ==
    CHOOSE i \in 1..Len(seq) : seq[i].url = url /\ \A j \in 1..(i - 1) : seq[j].url # url

Positions(text, token) == {i \in 1..Len(text) : text[i] = token}

(* Index of the k-th occurrence of token in text *)
Kth(text, token, k) ==
    CHOOSE i \in Positions(text, token) :
        Cardinality({j \in Positions(text, token) : j <= i}) = k

IsPrefix(p, text) == Len(p) <= Len(text) /\ SubSeq(text, 1, Len(p)) = p

(* The k-th per-source block of the text starts with this source's title
   header and URL line *)
BlockFor(text, i, source) ==
    /\ i + 9 <= Len(text)
    /\ SubSeq(text, i, i + 3) = <<"Source", " ", source.title, ":">>
    /\ SubSeq(text, i + 7, i + 9) = <<"URL:", " ", source.url>>

(* What follows "tokens: " in the k-th of n blocks, up to the blank line that
   ends the block or to the end of the text *)
RawSection(text, k, n) ==
    SubSeq(text, Kth(text, "tokens:", k) + 2,
           IF k < n THEN Kth(text, "Source", k + 1) - 3 ELSE Len(text))

HasRawContent(source) ==
    "raw_content" \in DOMAIN source /\ source.raw_content # PyNone

(* The raw content the truncation rule prescribes *)
ClaimedRaw(raw_content, max_tokens) ==
    IF Len(raw_content) > max_tokens * 4
      THEN SubSeq(raw_content, 1, max_tokens * 4) \o <<"...", " ", "[truncated]">>
      ELSE raw_content

LastNonSpace(t) ==
    LET S == {i \in 1..Len(t) : t[i] \notin {" ", "\n"}}
    IN  IF S = {} THEN 0 ELSE CHOOSE i \in S : \A j \in S : j <= i

WithoutTrailingSpace(t) == SubSeq(t, 1, LastNonSpace(t))

----------------------------------------------------------------------------
(* C1: the deduplication step yields each distinct url of the input exactly
   once, in the order of first occurrence, and the record kept for a url is
   the first input record with that url, with no field merged from a later
   one. *)
C1_FirstOccurrenceWins ==
    DedupReturned =>
        /\ UrlsOf(unique_sources) = UrlsOf(InputResults)
        /\ \A i, j \in 1..Len(unique_sources) :
              i < j =>
                /\ unique_sources[i].url # unique_sources[j].url
                /\ FirstIndex(InputResults, unique_sources[i].url)
                     < FirstIndex(InputResults, unique_sources[j].url)
        /\ \A i \in 1..Len(unique_sources) :
              unique_sources[i] = InputResults[FirstIndex(InputResults, unique_sources[i].url)]

(* Two provider responses; the third result repeats the url of the first with
   other fields, and a different url lies between them. *)
C1_Witness ==
    /\ DedupReturned
    /\ args.search_response.type = "list"
    /\ Len(InputResults) = 3
    /\ InputResults[1].url = InputResults[3].url
    /\ InputResults[1].url # InputResults[2].url
    /\ InputResults[1] # InputResults[3]
    /\ Len(unique_sources) = 2

(* C2 as stated: for every accepted input, also one with zero results, the
   returned text begins with "Sources:\n\n" and has exactly one block per
   unique url. *)
OneBlockPerUrl ==
    /\ Cardinality(Positions(result, "Source")) = Cardinality(UrlsOf(InputResults))
    /\ \A u \in UrlsOf(InputResults) :
          Cardinality({i \in Positions(result, "Source") :
                          BlockFor(result, i, InputResults[FirstIndex(InputResults, u)])}) = 1

C2_HeaderAlways ==
    DedupReturned => IsPrefix(Header, result) /\ OneBlockPerUrl

(* C2 amended: the text begins with "Sources:" and has exactly one block per
   unique url; it begins with the whole header "Sources:\n\n" when the input
   has at least one result, and is exactly "Sources:" when it has none. *)
C2_HeaderUnlessEmpty ==
    DedupReturned =>
        /\ IsPrefix(<<"Sources:">>, result)
        /\ OneBlockPerUrl
        /\ InputResults # <<>> => IsPrefix(<<"Sources:", "\n", "\n">>, result)
        /\ InputResults = <<>> => result = <<"Sources:">>

C2_Witness ==
    /\ DedupReturned
    /\ InputResults = <<>>
    /\ result = <<"Sources:">>
    /\ formatted_text = <<"Sources:", "\n", "\n">>

(* C3 as stated: with include_raw_content, the raw content emitted for every
   unique source, the last one included, is the first max_tokens*4 characters
   followed by "... [truncated]" when raw_content is longer than that, and
   raw_content unmodified otherwise. *)
C3_RawExactEverywhere ==
    (DedupReturned /\ args.include_raw_content) =>
        \A k \in 1..Len(unique_sources) :
            HasRawContent(unique_sources[k]) =>
                RawSection(result, k, Len(unique_sources))
                  = ClaimedRaw(unique_sources[k].raw_content, args.max_tokens_per_source)

(* C3 amended: that holds for every unique source but the last; the last
   source's raw content is emitted as that same value without its trailing
   whitespace, which the final strip() removes. *)
C3_RawExactButLastTrimmed ==
    (DedupReturned /\ args.include_raw_content) =>
        \A k \in 1..Len(unique_sources) :
            HasRawContent(unique_sources[k]) =>
                LET claimed == ClaimedRaw(unique_sources[k].raw_content,
                                          args.max_tokens_per_source)
                IN  RawSection(result, k, Len(unique_sources))
                      = IF k < Len(unique_sources) THEN claimed
                        ELSE WithoutTrailingSpace(claimed)

(* A truncated source followed by a last source whose raw content ends in
   whitespace *)
C3_Witness ==
    /\ DedupReturned
    /\ args.include_raw_content
    /\ Len(unique_sources) = 2
    /\ HasRawContent(unique_sources[1])
    /\ Len(unique_sources[1].raw_content) > args.max_tokens_per_source * 4
    /\ HasRawContent(unique_sources[2])
    /\ unique_sources[2].raw_content = <<"a", "a", " ">>
    /\ RawSection(result, 2, 2) = <<"a", "a">>

(* C4: with include_raw_content, a source whose raw_content is missing (the
   field absent, or present and null) gets the empty string, a warning is
   printed for it, and the call returns normally. *)
C4_MissingRawWarned ==
    (DedupReturned /\ args.include_raw_content) =>
        /\ error = "none"
        /\ \A k \in 1..Len(unique_sources) :
              ~HasRawContent(unique_sources[k]) =>
                 /\ RawSection(result, k, Len(unique_sources)) = <<>>
                 /\ \E i \in 1..Len(stdout) :
                       stdout[i] = <<"Warning: No raw_content found for source",
                                     unique_sources[k].url>>

(* C5: an input that is neither a mapping with a results field nor a
   sequence fails with the ValueError of the input-kind check, and nothing
   else. *)
InvalidInputKind(x) ==
    /\ ~(x.type = "dict" /\ "results" \in DOMAIN x.val)
    /\ x.type # "list"

C5_InvalidKindIsValueError ==
    (fn = "dedup" /\ pc \in {"returned", "raised"} /\ InvalidInputKind(args.search_response)) =>
        /\ pc = "raised"
        /\ error = "ValueError"
        /\ result = PyNone

(* C6: a sequence whose elements are response objects or flat SearchResult
   records, in any mixture, is flattened in order, a flat record contributing
   itself, and the call completes without error. *)
ResponsesAndFlatRecords(x) ==
    /\ x.type = "list"
    /\ \A i \in 1..Len(x.val) : x.val[i].type = "dict"

C6_FlatRecordsAccepted ==
    (fn = "dedup" /\ pc \in {"returned", "raised"}
       /\ ResponsesAndFlatRecords(args.search_response)) =>
        /\ pc = "returned"
        /\ error = "none"
        /\ sources_list = InputResults

(* C7: without include_raw_content no block has a raw-content section,
   whatever raw_content is, and every block has its title header, URL line
   and content snippet line. *)
C7_NoRawSection ==
    (DedupReturned /\ ~args.include_raw_content) =>
        /\ Positions(result, "Full source content limited to") = {}
        /\ Positions(result, "tokens:") = {}
        /\ Cardinality(Positions(result, "Source")) = Len(unique_sources)
        /\ \A k \in 1..Len(unique_sources) :
              LET i == Kth(result, "Source", k)
                  source == unique_sources[k]
              IN  /\ BlockFor(result, i, source)
                  /\ SubSeq(result, i + 4, i + 6) = <<"\n", "===", "\n">>
                  /\ SubSeq(result, i + 10, i + 12) = <<"\n", "===", "\n">>
                  /\ SubSeq(result, i + 13, i + 17)
                       = <<"Most relevant content from source:", " ", source.content,
                           "\n", "===">>
                  /\ IF k < Len(unique_sources)
                       THEN Kth(result, "Source", k + 1) = i + 19
                       ELSE Len(result) = i + 17

C7_Witness ==
    /\ DedupReturned
    /\ ~args.include_raw_content
    /\ Len(unique_sources) = 2
    /\ HasRawContent(unique_sources[1])
    /\ Len(unique_sources[1].raw_content) > args.max_tokens_per_source * 4
    /\ ~HasRawContent(unique_sources[2])

(* C8: format_sources returns one line "* {title} : {url}" per result, in
   input order, joined by newlines, and does not deduplicate. *)
LineCount(text) == IF text = <<>> THEN 0 ELSE Cardinality(Positions(text, "\n")) + 1

LineOf(text, i) ==
    SubSeq(text,
           IF i = 1 THEN 1 ELSE Kth(text, "\n", i - 1) + 1,
           IF i = LineCount(text) THEN Len(text) ELSE Kth(text, "\n", i) - 1)

C8_OneLinePerResult ==
    (fn = "format" /\ pc = "returned") =>
        LET results == args.search_results.val.results IN
        /\ LineCount(result) = Len(results)
        /\ \A i \in 1..Len(results) :
              LineOf(result, i) = <<"*", " ", results[i].title, " ", ":", " ", results[i].url>>

C8_Witness ==
    /\ fn = "format"
    /\ pc = "returned"
    /\ Len(args.search_results.val.results) = 3
    /\ args.search_results.val.results[1].url = args.search_results.val.results[3].url
    /\ LineCount(result) = 3

(* C9: the two formatters are pure: a call leaves every source record of the
   caller as it was passed, a null raw_content included, and keeps no state:
   whatever calls came before, the input of the first call yields again what
   the first call yielded. *)
PassedResponse == IF fn = "dedup" THEN args.search_response ELSE args.search_results

RequestFailed == \E i \in 1..Len(stdout) : stdout[i] = <<"Error searching SearxNG:">>

MinOf(a, b) == IF a < b THEN a ELSE b

Field(r, key) == IF key \in DOMAIN r THEN r[key] ELSE ""

C10_SearxngAbsorbsFailures ==
    /\ fn = "searxng" => (pc # "raised" /\ error = "none")
    /\ (fn = "searxng" /\ pc = "returned") =>
          IF RequestFailed THEN result = [results |-> <<>>]
          ELSE LET n == MinOf(args.max_results, Len(search_results))
                   out == result.results
               IN  /\ Len(out) = n
                   /\ \A i \in 1..n :
                         /\ out[i].title = Field(search_results[i], "title")
                         /\ out[i].url = Field(search_results[i], "url")
                         /\ out[i].content = Field(search_results[i], "content")
                         /\ out[i].raw_content =
                               IF args.include_raw_content /\ fetches[i].status = "200"
                                 THEN fetches[i].text ELSE PyNone

(* Three results whose fetches end in an exception, a 200 and another status;
   the provider sent more results than max_results *)
C10_Witness ==
    /\ fn = "searxng"
    /\ pc = "returned"
    /\ args.include_raw_content
    /\ args.max_results = 2
    /\ Len(search_results) = 3
    /\ Len(fetches) = 2
    /\ fetches[1].status = "exception"
    /\ fetches[2].status = "200"
    /\ Len(result.results) = 2
    /\ result.results[2].raw_content = <<"p", "a", "g", "e">>

====
